---- MODULE Spec2Model ----
(***************************************************************************)
(* The "mount" command of TMSU (src/src/tmsu/cli/mount.go): dispatch on    *)
(* the number of positional arguments, validation of the mount point and   *)
(* of the database path with os.Stat, spawning of the "vfs" daemon with    *)
(* its standard error captured by a pipe, a fixed sleep, one non-blocking  *)
(* Wait4 and, for a daemon that exited with a non-zero status, one Read of *)
(* the pipe.  The daemon is a separate process whose steps interleave with *)
(* those of the command from the moment it is started.                     *)
(***************************************************************************)
EXTENDS Integers, Sequences, FiniteSets, TLC

VARIABLES
    args,          \* positional arguments of the invocation
    allowOther,    \* options.HasOption("--allow-other")
    fs,            \* the filesystem: what each path is
    mountTable,    \* what vfs.GetMountTable() holds
    registryUp,    \* whether vfs.GetMountTable() can be queried
    pc,            \* position of the command in mountExec / mountExplicit
    databasePath,  \* parameter of mountExplicit
    mountPath,     \* parameter of mountExplicit
    errorPipe,     \* whether daemon.StderrPipe() has been opened
    child,         \* the daemon process
    written,       \* every byte the daemon wrote to its standard error
    readOff,       \* how many of those bytes the command has read
    held,          \* a descendant of the daemon still holds the pipe's write end
    writes,        \* number of writes the daemon has done
    waitStatus,    \* syscall.WaitStatus filled in by Wait4
    wpid,          \* the process id Wait4 returned
    elapsed,       \* nanoseconds the command has slept
    calls,         \* the calls the command made to its collaborators, in order
    out,           \* lines printed by log.Printf
    result         \* what mountExec returned

vars == <<args, allowOther, fs, mountTable, registryUp, pc, databasePath,
          mountPath, errorPipe, child, written, readOff, held, writes,
          waitStatus, wpid, elapsed, calls, out, result>>

-----------------------------------------------------------------------------
(* Bounds of the model *)

MaxArgs == 3
MaxWrites == 2
MaxMounts == 2

-----------------------------------------------------------------------------
(* Program constants *)

HALF_SECOND == 500000000
BufferSize == 1024

\* database.Path, the process-wide default database location
DefaultDatabasePath == "default.db"

ArgPaths == {"a", "b"}
Paths == ArgPaths \cup {DefaultDatabasePath}

\* What a path can be: missing, not queryable (permission, I/O), or present
Entries == {"absent", "denied", "file", "dir"}

NoPath == ""
Nil == "nil"

Min(a, b) == IF a < b THEN a ELSE b

RECURSIVE SeqsUpTo(_, _)
SeqsUpTo(S, n) ==
    IF n = 0 THEN {<<>>}
    ELSE LET shorter == SeqsUpTo(S, n - 1)
         IN shorter \cup {Append(s, x) : s \in {t \in shorter : Len(t) = n - 1}, x \in S}

\* "mount point busy" as bytes
MountPointBusy == <<109, 111, 117, 110, 116, 32, 112, 111, 105, 110, 116, 32,
                    98, 117, 115, 121>>

Fill(n) == [i \in 1..n |-> 65 + (i % 26)]

\* What the daemon may write to its standard error in one write
Chunks == {MountPointBusy, Fill(BufferSize - 16), Fill(BufferSize + 1)}

\* Exit codes and terminating signals of the daemon
ExitCodes == {0, 1, 255}
Signals == {9}

-----------------------------------------------------------------------------
(* Errors.  kind names the fmt.Errorf site that built the error. *)

NoError == [kind |-> Nil, path |-> NoPath, errno |-> Nil, text |-> <<>>]

Error(kind, path, errno, text) ==
    [kind |-> kind, path |-> path, errno |-> errno, text |-> text]

NotReturned == [returned |-> FALSE, wrap |-> Nil, db |-> NoPath, mp |-> NoPath,
                err |-> NoError]

Call(op, path, ok) == [op |-> op, path |-> path, ok |-> ok]

NoChild == [state |-> "none", code |-> 0, argv |-> <<>>, reaped |-> FALSE]

-----------------------------------------------------------------------------
(* os.Stat *)

OsStat(entry) ==
    CASE entry = "absent" -> [info |-> Nil, err |-> "ENOENT"]
      [] entry = "denied" -> [info |-> Nil, err |-> "EACCES"]
      [] OTHER            -> [info |-> entry, err |-> Nil]

IsDir(info) == info = "dir"
\* MountPointError with the result of os.Stat ignored
MountPointError_Unchecked(path, st) == NoError

\* MountPointError without the IsDir check
MountPointError_NoDirCheck(path, st) ==
    IF st.err # Nil THEN Error("StatFailed", path, st.err, <<>>)
    ELSE IF st.info = Nil THEN Error("NotFound", path, Nil, <<>>)
    ELSE NoError

\* The mount point checks of mountExplicit
MountPointError(path, st) ==
    IF st.err # Nil THEN Error("StatFailed", path, st.err, <<>>)
    ELSE IF st.info = Nil THEN Error("NotFound", path, Nil, <<>>)
    ELSE IF ~IsDir(st.info) THEN Error("NotADirectory", path, Nil, <<>>)
    ELSE NoError
\* DatabaseError with the result of os.Stat ignored
DatabaseError_Unchecked(path, st) == NoError

\* DatabaseError that also demands a regular file
DatabaseError_FileOnly(path, st) ==
    IF st.err # Nil THEN Error("StatFailed", path, st.err, <<>>)
    ELSE IF st.info # "file" THEN Error("NotFound", NoPath, Nil, <<>>)
    ELSE NoError

\* The database checks of mountExplicit.  The "does not exist" message is
\* built without its argument, so it names no path.
DatabaseError(path, st) ==
    IF st.err # Nil THEN Error("StatFailed", path, st.err, <<>>)
    ELSE IF st.info = Nil THEN Error("NotFound", NoPath, Nil, <<>>)
    ELSE NoError

-----------------------------------------------------------------------------
(* The daemon's command line *)

\* DaemonArgs with the flag put before the positional arguments
DaemonArgs_FlagFirst(db, mp, allow) ==
    IF allow THEN <<"vfs", "--allow-other", db, mp>> ELSE <<"vfs", db, mp>>

DaemonArgs(db, mp, allow) ==
    IF allow THEN <<"vfs", db, mp, "--allow-other">> ELSE <<"vfs", db, mp>>

-----------------------------------------------------------------------------
(* syscall.Wait4 with WNOHANG, and syscall.WaitStatus *)

EncodeStatus(c) ==
    IF c.state = "exited" THEN c.code * 256 ELSE c.code

Wait4(c, fail) ==
    IF fail THEN [pid |-> -1, err |-> "ECHILD", status |-> 0]
    ELSE IF c.state = "running" \/ c.reaped THEN [pid |-> 0, err |-> Nil, status |-> 0]
    ELSE [pid |-> 1, err |-> Nil, status |-> EncodeStatus(c)]

Exited(w) == w % 128 = 0

ExitStatus(w) == IF Exited(w) THEN (w \div 256) % 256 ELSE -1
\* PollFailed with the error of Wait4 dropped
PollFailed_Ignored(r) == FALSE

\* PollFailed that takes "no child has exited" for an error
PollFailed_NoExitIsError(r) == r.err # Nil \/ r.pid = 0

\* err != nil after Wait4
PollFailed(r) == r.err # Nil
\* NeedsDiagnostic without the test of the exit status
NeedsDiagnostic_AnyExit(w) == Exited(w)

\* waitStatus.Exited() && waitStatus.ExitStatus() != 0
NeedsDiagnostic(w) == Exited(w) /\ ExitStatus(w) # 0

-----------------------------------------------------------------------------
(* errorPipe.Read(buffer) with a buffer of BufferSize bytes *)

Available == SubSeq(written, readOff + 1, Len(written))

WriterOpen == child.state = "running" \/ held

\* A read of an empty pipe waits while a write end is open
CanRead(avail, open) == Len(avail) > 0 \/ ~open
\* PipeRead that loses the last byte
PipeRead_OffByOne(avail) ==
    IF Len(avail) > 0
    THEN [count |-> Min(Len(avail), BufferSize) - 1, err |-> Nil]
    ELSE [count |-> 0, err |-> "EOF"]

PipeRead(avail) ==
    IF Len(avail) > 0
    THEN [count |-> Min(Len(avail), BufferSize), err |-> Nil]
    ELSE [count |-> 0, err |-> "EOF"]

-----------------------------------------------------------------------------
(* mountExec: what the caller gets *)
\* Dispatch with every count above one taken for an explicit mount
Dispatch_NoDefault(argCount) ==
    CASE argCount = 0 -> "listMounts"
      [] argCount = 1 -> "mountDefault"
      [] OTHER        -> "mountExplicit"

Dispatch(argCount) ==
    CASE argCount = 0 -> "listMounts"
      [] argCount = 1 -> "mountDefault"
      [] argCount = 2 -> "mountExplicit"
      [] OTHER        -> "tooMany"

\* MountArguments with the two positional arguments taken in the wrong order
MountArguments_Swapped(target, argv) ==
    IF target = "mountDefault"
    THEN [db |-> DefaultDatabasePath, mp |-> argv[1]]
    ELSE [db |-> argv[2], mp |-> argv[1]]

\* mountExec: the arguments of mountExplicit; mountDefault passes database.Path
MountArguments(target, argv) ==
    IF target = "mountDefault"
    THEN [db |-> DefaultDatabasePath, mp |-> argv[1]]
    ELSE [db |-> argv[1], mp |-> argv[2]]

\* Returned with the error passed on as it is, without the paths
Returned_Unwrapped(err) ==
    [returned |-> TRUE, wrap |-> Nil, db |-> NoPath, mp |-> NoPath, err |-> err]

Returned(err) ==
    IF err.kind = Nil
    THEN [returned |-> TRUE, wrap |-> Nil, db |-> NoPath, mp |-> NoPath, err |-> NoError]
    ELSE CASE Dispatch(Len(args)) = "listMounts" ->
                [returned |-> TRUE, wrap |-> "could not list mounts",
                 db |-> NoPath, mp |-> NoPath, err |-> err]
           [] Dispatch(Len(args)) = "mountDefault" ->
                [returned |-> TRUE, wrap |-> "could not mount database at",
                 db |-> NoPath, mp |-> args[1], err |-> err]
           [] Dispatch(Len(args)) = "mountExplicit" ->
                [returned |-> TRUE, wrap |-> "could not mount database",
                 db |-> args[1], mp |-> args[2], err |-> err]
           [] OTHER ->
                [returned |-> TRUE, wrap |-> Nil, db |-> NoPath, mp |-> NoPath, err |-> err]

Succeeded == result.returned /\ result.err.kind = Nil
Failed(kind) == result.returned /\ result.err.kind = kind

MountRecords ==
    {[DatabasePath |-> DefaultDatabasePath, MountPath |-> "a"],
     [DatabasePath |-> "b", MountPath |-> "a"]}

\* listMounts that takes an empty mount table for a failure
ListMountsError_EmptyIsError(up, mt) ==
    IF ~up \/ Len(mt) = 0
    THEN Error("RegistryUnavailable", NoPath, "EIO", <<>>)
    ELSE NoError

\* listMounts: the error of vfs.GetMountTable(), if any, is the only failure
ListMountsError(up, mt) ==
    IF ~up THEN Error("RegistryUnavailable", NoPath, "EIO", <<>>) ELSE NoError

\* log.Printf("'%v' at '%v'", mount.DatabasePath, mount.MountPath)
FormatMount(mount) == <<"'", mount.DatabasePath, "' at '", mount.MountPath, "'">>

\* listMounts: the loop over the mount table
PrintedLines(mt) == [i \in 1..Len(mt) |-> FormatMount(mt[i])]

-----------------------------------------------------------------------------
(* Initial state: one invocation of the command *)

Init ==
    /\ args \in SeqsUpTo(ArgPaths, MaxArgs)
    /\ allowOther \in BOOLEAN
    /\ fs \in [Paths -> Entries]
    /\ mountTable = <<>>
    /\ registryUp = TRUE
    /\ pc = "mountExec"
    /\ databasePath = NoPath
    /\ mountPath = NoPath
    /\ errorPipe = FALSE
    /\ child = NoChild
    /\ written = <<>>
    /\ readOff = 0
    /\ held = FALSE
    /\ writes = 0
    /\ waitStatus = 0
    /\ wpid = 0
    /\ elapsed = 0
    /\ calls = <<>>
    /\ out = <<>>
    /\ result = NotReturned

-----------------------------------------------------------------------------
(* The command *)

\* mountExec: the switch on the number of arguments
MountExec ==
    /\ pc = "mountExec"
    /\ LET target == Dispatch(Len(args)) IN
         CASE target = "listMounts" ->
                /\ pc' = "listMounts"
                /\ UNCHANGED <<databasePath, mountPath, result>>
           [] target \in {"mountDefault", "mountExplicit"} ->
                /\ pc' = "statMountPoint"
                /\ databasePath' = MountArguments(target, args).db
                /\ mountPath' = MountArguments(target, args).mp
                /\ UNCHANGED result
           [] OTHER ->
                /\ pc' = "done"
                /\ result' = Returned(Error("TooManyArguments", NoPath, Nil, <<>>))
                /\ UNCHANGED <<databasePath, mountPath>>
    /\ UNCHANGED <<args, allowOther, fs, mountTable, registryUp, errorPipe, child,
                   written, readOff, held, writes, waitStatus, wpid, elapsed, calls, out>>

\* listMounts: query the mount table and print one line per mount
ListMounts ==
    /\ pc = "listMounts"
    /\ \E up \in BOOLEAN, mt \in SeqsUpTo(MountRecords, MaxMounts) :
         /\ registryUp' = up
         /\ mountTable' = IF up THEN mt ELSE <<>>
         /\ calls' = Append(calls, Call("GetMountTable", NoPath, up))
         /\ LET err == ListMountsError(up, mt) IN
              /\ out' = IF err.kind = Nil THEN out \o PrintedLines(mt) ELSE out
              /\ result' = Returned(err)
    /\ pc' = "done"
    /\ UNCHANGED <<args, allowOther, fs, databasePath, mountPath, errorPipe, child,
                   written, readOff, held, writes, waitStatus, wpid, elapsed>>

\* mountExplicit: os.Stat(mountPath) and the checks on its result
StatMountPoint ==
    /\ pc = "statMountPoint"
    /\ LET st  == OsStat(fs[mountPath])
           err == MountPointError(mountPath, st)
       IN /\ calls' = Append(calls, Call("Stat", mountPath, st.err = Nil))
          /\ IF err.kind # Nil
             THEN pc' = "done" /\ result' = Returned(err)
             ELSE pc' = "statDatabase" /\ UNCHANGED result
    /\ UNCHANGED <<args, allowOther, fs, mountTable, registryUp, databasePath,
                   mountPath, errorPipe, child, written, readOff, held, writes,
                   waitStatus, wpid, elapsed, out>>

\* mountExplicit: os.Stat(databasePath) and the checks on its result
StatDatabase ==
    /\ pc = "statDatabase"
    /\ LET st  == OsStat(fs[databasePath])
           err == DatabaseError(databasePath, st)
       IN /\ calls' = Append(calls, Call("Stat", databasePath, st.err = Nil))
          /\ IF err.kind # Nil
             THEN pc' = "done" /\ result' = Returned(err)
             ELSE pc' = "stderrPipe" /\ UNCHANGED result
    /\ UNCHANGED <<args, allowOther, fs, mountTable, registryUp, databasePath,
                   mountPath, errorPipe, child, written, readOff, held, writes,
                   waitStatus, wpid, elapsed, out>>

\* PipeError with the error of daemon.StderrPipe() dropped
PipeError_Ignored(fail) == NoError

\* mountExplicit: err != nil after daemon.StderrPipe()
PipeError(fail) ==
    IF fail THEN Error("PipeFailed", NoPath, "EMFILE", <<>>) ELSE NoError

\* mountExplicit: exec.Command and daemon.StderrPipe()
StderrPipe ==
    /\ pc = "stderrPipe"
    /\ \E fail \in BOOLEAN :
         /\ calls' = Append(calls, Call("StderrPipe", NoPath, ~fail))
         /\ errorPipe' = ~fail
         /\ IF PipeError(fail).kind # Nil
            THEN /\ pc' = "done"
                 /\ result' = Returned(PipeError(fail))
            ELSE /\ pc' = "start"
                 /\ UNCHANGED result
    /\ UNCHANGED <<args, allowOther, fs, mountTable, registryUp, databasePath,
                   mountPath, child, written, readOff, held, writes, waitStatus, wpid,
                   elapsed, out>>

CallCount(op) == Cardinality({i \in DOMAIN calls : calls[i].op = op})

\* AfterStart that starts the daemon a second time when the first start failed
AfterStart_RetryOnce(fail) ==
    IF fail THEN (IF CallCount("Start") = 0 THEN "start" ELSE "done") ELSE "sleep"

\* mountExplicit: where the command goes after daemon.Start()
AfterStart(fail) == IF fail THEN "done" ELSE "sleep"

\* mountExplicit: daemon.Start()
Start ==
    /\ pc = "start"
    /\ \E fail \in BOOLEAN :
         /\ calls' = Append(calls, Call("Start", NoPath, ~fail))
         /\ pc' = AfterStart(fail)
         /\ result' = IF pc' = "done"
                      THEN Returned(Error("SpawnFailed", NoPath, "ENOENT", <<>>))
                      ELSE result
         /\ child' = IF fail
                     THEN child
                     ELSE [state |-> "running", code |-> 0,
                           argv |-> DaemonArgs(databasePath, mountPath, allowOther),
                           reaped |-> FALSE]
    /\ UNCHANGED <<args, allowOther, fs, mountTable, registryUp, databasePath,
                   mountPath, errorPipe, written, readOff, held, writes, waitStatus, wpid,
                   elapsed, out>>

\* mountExplicit: time.Sleep(HALF_SECOND)
Sleep ==
    /\ pc = "sleep"
    /\ elapsed' = elapsed + HALF_SECOND
    /\ calls' = Append(calls, Call("Sleep", NoPath, TRUE))
    /\ pc' = "wait4"
    /\ UNCHANGED <<args, allowOther, fs, mountTable, registryUp, databasePath,
                   mountPath, errorPipe, child, written, readOff, held, writes,
                   waitStatus, wpid, out, result>>

\* AfterPoll that polls a second time when the daemon had not exited
AfterPoll_PollAgain(r) ==
    IF r.err = Nil /\ r.pid = 0 /\ CallCount("Wait4") = 0 THEN "wait4"
    ELSE IF PollFailed(r) THEN "done"
    ELSE IF NeedsDiagnostic(r.status) THEN "read"
    ELSE "done"

\* mountExplicit: where the command goes after Wait4: the pipe is read only
\* for an exit with a non-zero status, everything else returns
AfterPoll(r) ==
    IF PollFailed(r) THEN "done"
    ELSE IF NeedsDiagnostic(r.status) THEN "read"
    ELSE "done"

\* mountExplicit: syscall.Wait4(pid, &waitStatus, WNOHANG, &rusage) and the
\* classification of waitStatus
Poll ==
    /\ pc = "wait4"
    /\ \E fail \in BOOLEAN :
         LET r == Wait4(child, fail) IN
           /\ calls' = Append(calls, Call("Wait4", NoPath, r.err = Nil))
           /\ waitStatus' = r.status
           /\ wpid' = r.pid
           /\ child' = IF r.pid > 0 THEN [child EXCEPT !.reaped = TRUE] ELSE child
           /\ pc' = AfterPoll(r)
           /\ result' = IF pc' # "done" THEN result
                        ELSE IF PollFailed(r)
                        THEN Returned(Error("PollFailed", NoPath, r.err, <<>>))
                        ELSE Returned(NoError)
    /\ UNCHANGED <<args, allowOther, fs, mountTable, registryUp, databasePath,
                   mountPath, errorPipe, written, readOff, held, writes, elapsed, out>>

\* mountExplicit: errorPipe.Read(buffer) and the error built from it
Read ==
    /\ pc = "read"
    /\ CanRead(Available, WriterOpen)
    /\ LET r == PipeRead(Available) IN
         /\ calls' = Append(calls, Call("Read", NoPath, r.err = Nil))
         /\ readOff' = readOff + r.count
         /\ IF r.err # Nil
            THEN result' = Returned(Error("DiagnosticReadFailed", NoPath, r.err, <<>>))
            ELSE result' = Returned(Error("MountFailed", NoPath, Nil,
                                          SubSeq(Available, 1, r.count)))
    /\ pc' = "done"
    /\ UNCHANGED <<args, allowOther, fs, mountTable, registryUp, databasePath,
                   mountPath, errorPipe, child, written, held, writes, waitStatus, wpid,
                   elapsed, out>>

-----------------------------------------------------------------------------
(* The daemon, a process of its own once started *)

ChildWrite ==
    /\ child.state = "running"
    /\ writes < MaxWrites
    /\ \E chunk \in Chunks : written' = written \o chunk
    /\ writes' = writes + 1
    /\ UNCHANGED <<args, allowOther, fs, mountTable, registryUp, pc, databasePath,
                   mountPath, errorPipe, child, readOff, held, waitStatus, wpid, elapsed,
                   calls, out, result>>

\* The daemon exits; a descendant may keep its standard error open
ChildExit ==
    /\ child.state = "running"
    /\ \E code \in ExitCodes, keep \in BOOLEAN :
         /\ child' = [child EXCEPT !.state = "exited", !.code = code]
         /\ held' = keep
    /\ UNCHANGED <<args, allowOther, fs, mountTable, registryUp, pc, databasePath,
                   mountPath, errorPipe, written, readOff, writes, waitStatus, wpid,
                   elapsed, calls, out, result>>

\* The daemon is terminated by a signal
ChildSignaled ==
    /\ child.state = "running"
    /\ \E sig \in Signals :
         child' = [child EXCEPT !.state = "signaled", !.code = sig]
    /\ UNCHANGED <<args, allowOther, fs, mountTable, registryUp, pc, databasePath,
                   mountPath, errorPipe, written, readOff, held, writes, waitStatus, wpid,
                   elapsed, calls, out, result>>

\* The descendant holding the pipe's write end closes it
DescendantClose ==
    /\ held
    /\ held' = FALSE
    /\ UNCHANGED <<args, allowOther, fs, mountTable, registryUp, pc, databasePath,
                   mountPath, errorPipe, child, written, readOff, writes, waitStatus, wpid,
                   elapsed, calls, out, result>>

Next ==
    \/ MountExec
    \/ ListMounts
    \/ StatMountPoint
    \/ StatDatabase
    \/ StderrPipe
    \/ Start
    \/ Sleep
    \/ Poll
    \/ Read
    \/ ChildWrite
    \/ ChildExit
    \/ ChildSignaled
    \/ DescendantClose

Spec == Init /\ [][Next]_vars

\* The steps of the command itself
CommandNext ==
    \/ MountExec
    \/ ListMounts
    \/ StatMountPoint
    \/ StatDatabase
    \/ StderrPipe
    \/ Start
    \/ Sleep
    \/ Poll
    \/ Read

\* The command is a running process: it takes its next step whenever it
\* has one (a Read that waits for bytes is not a step it can take).  The
\* daemon and its descendants owe nothing: they may run, or hold the pipe,
\* for ever.
FairSpec == Spec /\ WF_vars(CommandNext)

-----------------------------------------------------------------------------
(* Vocabulary of the properties *)

HasCall(op) == \E i \in DOMAIN calls : calls[i].op = op
HasCallOk(op) == \E i \in DOMAIN calls : calls[i].op = op /\ calls[i].ok
HasCallFailed(op) == \E i \in DOMAIN calls : calls[i].op = op /\ ~calls[i].ok

Done == pc = "done"
IsMount == Len(args) \in {1, 2} /\ pc # "mountExec"
NoProcess == child.state = "none" /\ ~HasCall("Start")
Exists(path) == fs[path] \in {"file", "dir"}

\* What the single Wait4 reported
PolledExit == HasCallOk("Wait4") /\ wpid > 0 /\ child.state = "exited"
PolledRunning == HasCallOk("Wait4") /\ wpid = 0

-----------------------------------------------------------------------------
(* Properties *)

\* C1: daemon.Start() is called only after os.Stat of the mount point and
\* os.Stat of the database, in that order, both succeeded on a directory and
\* on an existing path; once a check has failed no process exists at any
\* later point of the invocation.
C1_SpawnOnlyAfterBothChecks ==
    /\ \A i \in DOMAIN calls :
         calls[i].op = "Start" =>
           /\ fs[mountPath] = "dir"
           /\ Exists(databasePath)
           /\ \E j, k \in 1..(i - 1) :
                /\ j < k
                /\ calls[j] = Call("Stat", mountPath, TRUE)
                /\ calls[k] = Call("Stat", databasePath, TRUE)
    /\ (IsMount /\ (fs[mountPath] # "dir" \/ ~Exists(databasePath))) => NoProcess

C1_Witness ==
    /\ HasCallOk("Start")
    /\ child.state # "none"

\* C2: a mount whose mount point does not exist fails with the NotFound
\* error ("mount point does not exist."), not with StatFailed, and spawns
\* no process.
C2_MissingMountPointIsNotFound ==
    (Done /\ IsMount /\ fs[mountPath] = "absent") =>
        (Failed("NotFound") /\ NoProcess)

\* C3: a mount whose mount point exists but is not a directory fails with
\* NotADirectory naming the mount point and spawns no process, whatever
\* the database path is.
C3_NotADirectory ==
    (IsMount /\ fs[mountPath] = "file") =>
        /\ NoProcess
        /\ Done => (Failed("NotADirectory") /\ result.err.path = mountPath)

C3_Witness ==
    /\ Done /\ IsMount
    /\ fs[mountPath] = "file"
    /\ Exists(databasePath)
    /\ Failed("NotADirectory")

\* C4 as stated: with the mount point a directory and the database path
\* existing, daemon.Start() is always attempted.
C4_ValidRequestAlwaysSpawns ==
    (Done /\ IsMount /\ fs[mountPath] = "dir" /\ Exists(databasePath)) =>
        HasCall("Start")

\* C4 amended: with the mount point a directory and the database path
\* existing (a file or a directory), no validation error is returned and the
\* launch is reached: StderrPipe is called, and Start is attempted unless
\* StderrPipe failed.
C4_ValidRequestReachesLaunch ==
    (Done /\ IsMount /\ fs[mountPath] = "dir" /\ Exists(databasePath)) =>
        /\ result.err.kind \notin {"StatFailed", "NotFound", "NotADirectory"}
        /\ HasCall("StderrPipe")
        /\ HasCallOk("StderrPipe") <=> HasCall("Start")

C4_Witness ==
    /\ Done /\ IsMount
    /\ fs[mountPath] = "dir"
    /\ fs[databasePath] = "dir"
    /\ HasCall("Start")

\* C5: with three or more positional arguments the command fails with the
\* "Too many arguments." error and calls nothing: no mount table query, no
\* os.Stat, no pipe, no process.
C5_TooManyArguments ==
    Len(args) >= 3 =>
        /\ calls = <<>>
        /\ child.state = "none"
        /\ out = <<>>
        /\ Done => (Failed("TooManyArguments") /\ result.wrap = Nil)

C5_Witness ==
    /\ Done
    /\ Len(args) >= 3
    /\ Failed("TooManyArguments")

\* C6: when Wait4 reports that the daemon exited with status zero, the mount
\* returns nil and the error pipe is never read.
C6_ExitedOk ==
    (Done /\ PolledExit /\ child.code = 0) =>
        /\ Succeeded
        /\ ~HasCall("Read")
        /\ readOff = 0

C6_Witness ==
    /\ Done /\ PolledExit /\ child.code = 0
    /\ Len(written) > 0
    /\ Succeeded

\* C7: when Wait4 reports that the daemon exited with a non-zero status and
\* the daemon had written bytes to its standard error, the mount fails with
\* MountFailed and the text of the error is exactly the first
\* min(length, 1024) bytes written.
C7_DiagnosticIsWhatWasWritten ==
    (Done /\ PolledExit /\ child.code # 0 /\ Len(written) > 0) =>
        /\ Failed("MountFailed")
        /\ result.err.text = SubSeq(written, 1, Min(Len(written), BufferSize))
        /\ Len(result.err.text) <= BufferSize

C7_Witness ==
    /\ Done /\ PolledExit /\ child.code # 0
    /\ written = MountPointBusy
    /\ Failed("MountFailed")
    /\ result.err.text = MountPointBusy

\* C8: when the daemon exited with a non-zero status having written nothing,
\* the mount fails with MountFailed and an empty text, not with
\* DiagnosticReadFailed.
C8_EmptyDiagnosticIsMountFailed ==
    (Done /\ PolledExit /\ child.code # 0 /\ written = <<>>) =>
        (Failed("MountFailed") /\ result.err.text = <<>>)

\* C9: when Wait4 reports no exit (the daemon is still running), the mount
\* returns nil, Wait4 is the last call the command ever makes (no second
\* wait, no read of the error pipe), and the daemon is left unreaped.
C9_RunningIsSuccess ==
    (Done /\ PolledRunning) =>
        /\ Succeeded
        /\ calls[Len(calls)].op = "Wait4"
        /\ Cardinality({i \in DOMAIN calls : calls[i].op = "Wait4"}) = 1
        /\ ~HasCall("Read")
        /\ readOff = 0
        /\ ~child.reaped

C9_Witness ==
    /\ Done /\ PolledRunning
    /\ Succeeded
    /\ child.state = "running"
    /\ Len(written) > 0

\* C10: when Wait4 itself returns an error the mount fails with PollFailed
\* and reads nothing; PollFailed is returned only then, never for a daemon
\* that Wait4 found still running.
C10_PollFailed ==
    /\ (Done /\ HasCallFailed("Wait4")) =>
          (Failed("PollFailed") /\ ~HasCall("Read"))
    /\ Failed("PollFailed") => (HasCallFailed("Wait4") /\ ~HasCallOk("Wait4"))

C10_Witness ==
    /\ Failed("PollFailed")
    /\ child.state = "running"

\* C11: listing prints exactly one line per entry of the mount table, in the
\* table's order and naming the entry's database path and mount path, and
\* returns nil, also for an empty table (no line); it fails only when
\* vfs.GetMountTable() failed, and then prints nothing.
C11_ListMounts ==
    (Done /\ Len(args) = 0) =>
        /\ HasCallOk("GetMountTable") =>
             /\ Succeeded
             /\ Len(out) = Len(mountTable)
             /\ \A i \in DOMAIN out :
                  /\ out[i][2] = mountTable[i].DatabasePath
                  /\ out[i][4] = mountTable[i].MountPath
        /\ HasCallFailed("GetMountTable") =>
             /\ Failed("RegistryUnavailable")
             /\ out = <<>>
        /\ ~Succeeded => HasCallFailed("GetMountTable")

C11_Witness ==
    /\ Done /\ Len(args) = 0
    /\ HasCallOk("GetMountTable")
    /\ mountTable = <<>>
    /\ out = <<>>
    /\ Succeeded

\* C12: dispatch by the number of arguments is exclusive.  With none, the
\* only call ever made is the mount table query: no os.Stat, no pipe, no
\* process.  With one, mountExplicit gets database.Path and the argument as
\* mount path; with two, the first argument as database path and the second
\* as mount path; every os.Stat is of one of these two paths.  A mount never
\* queries the mount table and prints no line.
C12_DispatchExclusive ==
    /\ Len(args) = 0 =>
         /\ \A i \in DOMAIN calls : calls[i].op = "GetMountTable"
         /\ Len(calls) <= 1
         /\ child.state = "none"
         /\ databasePath = NoPath /\ mountPath = NoPath
    /\ (Len(args) = 1 /\ pc # "mountExec") =>
         /\ databasePath = DefaultDatabasePath
         /\ mountPath = args[1]
    /\ (Len(args) = 2 /\ pc # "mountExec") =>
         /\ databasePath = args[1]
         /\ mountPath = args[2]
    /\ Len(args) \in {1, 2} =>
         /\ ~HasCall("GetMountTable")
         /\ out = <<>>
         /\ \A i \in DOMAIN calls :
              calls[i].op = "Stat" => calls[i].path \in {databasePath, mountPath}
         /\ Len(calls) >= 1 => calls[1] = Call("Stat", args[Len(args)], fs[args[Len(args)]] \in {"file", "dir"})

C12_Witness ==
    /\ Done
    /\ Len(args) = 1
    /\ databasePath = DefaultDatabasePath
    /\ HasCallOk("Start")

\* C13: the argument vector of the started daemon is exactly "vfs", the
\* database path, the mount path, followed by "--allow-other" if and only
\* if the option was given; nothing else, always in this order.
C13_DaemonArgs ==
    child.state # "none" =>
        LET db == IF Len(args) = 1 THEN DefaultDatabasePath ELSE args[1]
            mp == args[Len(args)]
        IN /\ Len(child.argv) = (IF allowOther THEN 4 ELSE 3)
           /\ child.argv[1] = "vfs"
           /\ child.argv[2] = db
           /\ child.argv[3] = mp
           /\ allowOther => child.argv[4] = "--allow-other"

C13_Witness ==
    /\ child.state # "none"
    /\ allowOther
    /\ Len(args) = 2
    /\ args[1] # args[2]
    /\ child.argv = <<"vfs", args[1], args[2], "--allow-other">>

\* C14: the pipe on the daemon's standard error is opened before the daemon
\* is started: every call of Start comes after a successful StderrPipe, so a
\* daemon that exists, and every byte it wrote, has the pipe open; when
\* StderrPipe fails the mount fails and Start is never called.
C14_PipeBeforeStart ==
    /\ \A i \in DOMAIN calls :
         calls[i].op = "Start" =>
           \E j \in 1..(i - 1) : calls[j] = Call("StderrPipe", NoPath, TRUE)
    /\ (child.state # "none" \/ Len(written) > 0) => errorPipe
    /\ HasCallFailed("StderrPipe") =>
         /\ NoProcess
         /\ Done /\ Failed("PipeFailed")

C14_Witness ==
    /\ HasCallOk("Start")
    /\ pc = "sleep"
    /\ Len(written) > 0
    /\ errorPipe

\* C15: nothing is retried.  In one invocation, whatever its outcome, each
\* of StderrPipe, Start, Sleep, Wait4 and Read is called at most once, and
\* each path is queried by os.Stat at most once per check (twice in all).
C15_NoRetry ==
    /\ CallCount("Start") <= 1
    /\ CallCount("Wait4") <= 1
    /\ CallCount("StderrPipe") <= 1
    /\ CallCount("Sleep") <= 1
    /\ CallCount("Read") <= 1
    /\ CallCount("Stat") <= 2
    /\ CallCount("GetMountTable") <= 1
    /\ HasCallFailed("Start") => (Done /\ Failed("SpawnFailed") /\ child.state = "none")

C15_Witness ==
    /\ Done
    /\ HasCallFailed("Start")
    /\ CallCount("Start") = 1
    /\ Failed("SpawnFailed")

\* A collaborator failed: a call returned an error, the mount point is not a
\* directory, or the daemon was found exited with a non-zero status.
DownstreamFailed ==
    \/ \E i \in DOMAIN calls : ~calls[i].ok
    \/ IsMount /\ fs[mountPath] = "file"
    \/ PolledExit /\ child.code # 0

\* The returned error names the path, in the text mountExec adds or in the
\* error of mountExplicit itself.
Identifies(path) == path \in {result.db, result.mp, result.err.path}

\* C16 as stated: every failure of a mount reaches the caller as an error
\* that identifies both the database path and the mount path.
C16_ErrorNamesBothPaths ==
    (Done /\ IsMount /\ DownstreamFailed) =>
        /\ result.err.kind # Nil
        /\ Identifies(databasePath)
        /\ Identifies(mountPath)

\* C16 amended: every failure of a collaborator reaches the caller as an
\* error, never as success.  For a mount with two arguments mountExec adds
\* both the database path and the mount path to it; for a mount with one
\* argument it adds the mount path only, and the default database path is
\* named only when the failure is the error of its own os.Stat; for a
\* listing it adds no path.
C16_ErrorSurfaced ==
    (Done /\ DownstreamFailed) =>
        /\ result.returned
        /\ result.err.kind # Nil
        /\ Len(args) = 2 =>
             /\ result.wrap = "could not mount database"
             /\ result.db = databasePath /\ result.db = args[1]
             /\ result.mp = mountPath /\ result.mp = args[2]
        /\ Len(args) = 1 =>
             /\ result.wrap = "could not mount database at"
             /\ result.mp = mountPath /\ result.mp = args[1]
             /\ result.db = NoPath
             /\ Identifies(databasePath) <=>
                  (result.err.kind = "StatFailed" /\ result.err.path = databasePath)
        /\ Len(args) = 0 =>
             /\ result.wrap = "could not list mounts"
             /\ result.db = NoPath /\ result.mp = NoPath

C16_Witness ==
    /\ Done
    /\ Len(args) = 2
    /\ args[1] # args[2]
    /\ Failed("SpawnFailed")
    /\ result.db = args[1]
    /\ result.mp = args[2]

\* C17: only the daemon's state at the one Wait4 counts.  When Wait4 found
\* the daemon running and the daemon ends afterwards (an exit with any
\* status, or a signal, with or without bytes on its standard error), the
\* mount has returned or returns nil, there is no second Wait4, the error
\* pipe is never read and nothing the daemon wrote is part of the result.
C17_LateFailureIsSuccess ==
    (PolledRunning /\ child.state \in {"exited", "signaled"}) =>
        /\ Done
        /\ Succeeded
        /\ result.err.text = <<>>
        /\ CallCount("Wait4") = 1
        /\ ~HasCall("Read")
        /\ readOff = 0
        /\ ~child.reaped

C17_Witness ==
    /\ Done
    /\ PolledRunning
    /\ child.state = "exited"
    /\ child.code # 0
    /\ Len(written) > 0
    /\ Succeeded

\* C18: once the daemon is started and Wait4 has succeeded, the mount fails
\* with MountFailed if and only if Wait4 reported a normal exit with a
\* non-zero status; in every other polled state (still running, exited with
\* status zero, terminated by a signal) it returns nil and reads nothing.
C18_MountFailedIffNonZeroExit ==
    (Done /\ HasCallOk("Wait4")) =>
        /\ Failed("MountFailed") <=> (PolledExit /\ child.code # 0)
        /\ ~(PolledExit /\ child.code # 0) => (Succeeded /\ ~HasCall("Read"))

\* C19: every invocation returns, whatever the daemon does, also when the
\* daemon never exits and when it exits with a non-zero status while its
\* standard error, with nothing written to it, is still held open.
C19_Terminates == <>Done

\* C20: the mount point is checked strictly before the database path.  When
\* the mount point is not a directory (missing, not queryable or a file),
\* os.Stat of the mount point is the only call ever made, the database path
\* is not queried, and the error is about the mount point, also when the
\* database path is invalid too.
C20_MountPointFirst ==
    (IsMount /\ fs[mountPath] # "dir") =>
        /\ Len(calls) <= 1
        /\ Len(calls) = 1 =>
             /\ calls[1] = Call("Stat", mountPath, fs[mountPath] = "file")
             /\ Done
             /\ result.err.kind \in {"StatFailed", "NotFound", "NotADirectory"}
             /\ result.err.path = mountPath

C20_Witness ==
    /\ Done /\ IsMount
    /\ mountPath # databasePath
    /\ fs[mountPath] = "file"
    /\ fs[databasePath] = "absent"
    /\ result.err.path = mountPath
    /\ CallCount("Stat") = 1

====
